---- MODULE Spec2Model ----
(***************************************************************************)
(* Verification model of easy-firebase-ts.                                 *)
(*                                                                         *)
(*   SpecRetry    : FunctionsService.callFunctionWithRetry, the retry loop *)
(*                  with exponential backoff (functions service draft).    *)
(*   SpecDelivery : the message listener that PubSubService.subscribeToTopic*)
(*                  registers (src/pubsub/pubsub-service.ts).              *)
(*   SpecRegistry : the registry of active subscriptions of the PubSub     *)
(*                  service draft (subscribeToTopic / unsubscribe).        *)
(*                                                                         *)
(*   SpecCreate   : createTopic / createSubscription / getOrCreate* of the  *)
(*                  messaging service and what exists remotely.            *)
(*   SpecCodec    : a payload through publishMessage, the transport's      *)
(*                  bytes, and parseMessageData / the messageHandler.      *)
(*   SpecFunctions: the per-region instances of FunctionsService and the   *)
(*                  region a call is dispatched to.                        *)
(*   SpecManager  : FirebaseManager, its cached handles and the facades it *)
(*                  hands out.                                             *)
(*   SpecDocuments: FirestoreService of src/index.ts (getDocument,         *)
(*                  setDocument, updateDocument, deleteDocument, query)    *)
(*                  over the documents the client stores.                  *)
(*                                                                         *)
(* Each specification leaves the variables of the others untouched.        *)
(***************************************************************************)
EXTENDS Integers, Sequences, FiniteSets, TLC

\* ---------------------------------------------------------------- bounds

\* Largest maxRetries a caller passes in options (per call).
MaxRetriesOpt == 6

\* Messages the transport delivers to the message listener.
MaxMessages == 2

\* Subscription objects that subscribeToTopic of the draft service sets up.
MaxHandles == 3

\* Calls of create* / getOrCreate* of the messaging service in flight.
MaxCreateCalls == 2

\* Payloads: the longest generated string, the largest number, the longest
\* array.
MaxStringLen == 2

MaxNumber == 12

MaxArrayLen == 2

\* getFunctions invocations for one region of one function facade between
\* two cleanups, after which the model lets no further call start.
MaxGetFunctions == 2

\* Facades of one kind that a manager constructs.
MaxFacades == 2

\* ------------------------------------------------------------ JS helpers

\* An optional number: <<>> is undefined, <<n>> is the number n.
Undefined == <<>>

Num(n) == <<n>>

\* JavaScript truthiness of an optional number: undefined and 0 are falsy.
Truthy(v) == v # Undefined /\ v[1] # 0

\* a || b on optional numbers.
OrElse(a, b) == IF Truthy(a) THEN a ELSE b

Min(a, b) == IF a <= b THEN a ELSE b

RECURSIVE Pow2(_)
Pow2(k) == IF k <= 0 THEN 1 ELSE 2 * Pow2(k - 1)

\* ------------------------------------------- functions service: constants

\* constructor default of config.maxRetries
DefaultConfigMaxRetries == 3

\* last operand of  options?.maxRetries || this.config.maxRetries || 3
FallbackMaxRetries == 3

\* Math.min(1000 * Math.pow(2, attempt), 10000)
BackoffBaseMs == 1000

BackoffCapMs == 10000

\* ------------------------------------------------ functions service: state

VARIABLES
  config,       \* this.config.maxRetries (optional number)
  options,      \* options?.maxRetries of the call in progress (optional number)
  maxRetries,   \* the local maxRetries of callFunctionWithRetry
  attempt,      \* the loop variable
  lastError,    \* the local lastError: NoError or a FunctionsError
  pc,           \* "idle" | "calling" | "waiting" | "returned" | "thrown"
  calls,        \* invocations of the underlying callable in this call
  failures,     \* how many of them rejected
  waits,        \* the backoff times scheduled in this call, in order
  result,       \* what the caller received on return: the invocation it came from
  thrown,       \* what the caller received on throw
  configAtCall  \* this.config.maxRetries as it was when the call started

retryVars ==
  <<config, options, maxRetries, attempt, lastError, pc, calls, failures, waits,
    result, thrown, configAtCall>>

\* Platform error codes are sequences of tokens; "functions/" is the prefix that
\* handleFunctionError removes.
PREFIX == "functions/"

NoError == [kind |-> "none"]

\* What the underlying callable can reject with: an object with a string code,
\* or something without one (hasCode = FALSE).
PlatformCodes ==
  { <<PREFIX, "permission-denied">>, <<PREFIX, "invalid-argument">>,
    <<PREFIX, "not-found">>, <<"permission-denied">>,
    <<PREFIX, "unavailable">>, <<PREFIX, PREFIX, "not-found">>,
    <<"x-", PREFIX, "internal">> }

\* error.message of what was caught: absent, or a text.
PlatformMessages == { <<>>, <<"Function execution failed">> }

PlatformErrors ==
  { [hasCode |-> TRUE, code |-> c, message |-> m] :
      c \in PlatformCodes, m \in PlatformMessages }
    \cup { [hasCode |-> FALSE, code |-> <<>>, message |-> m] :
              m \in PlatformMessages }

\* The name of the function that is called.
FunctionName == "helloWorld"

\* String.prototype.replace(PREFIX, ''): removes the first occurrence only.
RECURSIVE ReplaceFirst(_)
ReplaceFirst(s) ==
  IF s = <<>> THEN <<>>
  ELSE IF Head(s) = PREFIX THEN Tail(s)
  ELSE <<Head(s)>> \o ReplaceFirst(Tail(s))

\* handleFunctionError: the FunctionsError built from what was caught. inv is the
\* invocation that rejected (the identity of originalError).
handleFunctionError(error, inv) ==
  [ kind |-> "FunctionsError",
    message |-> <<"Error calling function '", FunctionName, "': ">>
                  \o (IF error.message # <<>> THEN error.message
                      ELSE <<"Unknown error">>),
    code |-> IF error.hasCode THEN ReplaceFirst(error.code) ELSE <<"unknown-error">>,
    originalError |-> error,
    inv |-> inv ]

\* A variant that treats only permission errors as final.
NonRetryableOnlyPermission(e) ==
  e.kind = "FunctionsError" /\ e.code \in { <<"permission-denied">> }

\* ['permission-denied', 'invalid-argument', 'not-found'].includes(error.code)
NonRetryable(e) ==
  e.kind = "FunctionsError"
    /\ e.code \in { <<"permission-denied">>, <<"invalid-argument">>, <<"not-found">> }

\* const maxRetries = options?.maxRetries || this.config.maxRetries || 3
EffectiveMaxRetries(opt, cfg) == OrElse(OrElse(opt, cfg), Num(FallbackMaxRetries))[1]

\* A variant without the cap.
BackoffTimeUncapped(k) == BackoffBaseMs * Pow2(k)

\* const backoffTime = Math.min(1000 * Math.pow(2, attempt), 10000)
BackoffTime(k) == Min(BackoffBaseMs * Pow2(k), BackoffCapMs)

\* Values a service is configured with / a caller passes.
ConfigValues == { Undefined, Num(0), Num(2), Num(DefaultConfigMaxRetries) }

OptionValues == { Undefined } \cup { Num(n) : n \in -1 .. MaxRetriesOpt }

\* for (let attempt = 0; attempt <= maxRetries; attempt++)
LoopCondition(a, m) == a <= m

\* if (attempt === maxRetries) throw error
LastAttempt(a, m) == a = m

\* A variant that throws the first error caught instead of the current one.
ThrownErrorFirst(error, previous) == IF previous.kind = "none" THEN error ELSE previous

\* throw error (lines 140 and 146): the error of the attempt that just failed.
\* previous is lastError before this attempt.
ThrownError(error, previous) == error

\* throw lastError after the loop: lastError was never assigned.
UndefinedError == [kind |-> "undefined"]

\* ------------------------------------------------ messaging service: state

VARIABLES
  pubsubConfig, \* this.config.timeout of the messaging service (optional number)
  listener,     \* the options captured by the registered messageHandler, or NoListener
  msgs          \* per delivered message: the state of its messageHandler run

deliveryVars == <<pubsubConfig, listener, msgs>>

\* ------------------------------------- messaging service draft: registry

VARIABLES
  activeSubscriptions, \* this.activeSubscriptions: name -> handle, 0 when absent
  subscriptions,       \* the Subscription objects given listeners so far; a handle
                       \* is an index: [name, message, error] (listener counts)
  pending,             \* name -> where a subscribeToTopic call in flight awaits
  remote,              \* subscription names that exist remotely
  lastOp               \* the last step of a service call and how it ended

registryVars == <<activeSubscriptions, subscriptions, pending, remote, lastOp>>

\* ------------------------------ creation, payloads, callers, manager: state

VARIABLES
  creation,  \* topic / subscription creation: what exists remotely and the
             \* calls of create* / getOrCreate* in flight
  codec,     \* one payload on its way through publishMessage and back
  functions, \* the function facades: this.functionsInstances and the last call
  manager,   \* the FirebaseManager: its cached handles and the facades it made
  documents  \* the document facade: the stored documents and the last call

serviceVars == <<creation, codec, functions, manager, documents>>

baseVars == <<retryVars, deliveryVars, registryVars>>

vars == <<retryVars, deliveryVars, registryVars, serviceVars>>

\* ------------------------------------------- functions service: operations

\* updateConfig({maxRetries: v})
UpdateConfig(v) ==
  /\ config' = v
  /\ UNCHANGED <<options, maxRetries, attempt, lastError, pc, calls, failures, waits,
                 result, thrown, configAtCall>>
  /\ UNCHANGED <<deliveryVars, registryVars, serviceVars>>

\* callFunctionWithRetry(name, data, {maxRetries: opt}) up to its first await:
\* maxRetries is computed, the loop is entered and callFunction invokes the
\* callable; with the loop condition false the statement after the loop throws.
StartCall(opt) ==
  /\ pc \in {"idle", "returned", "thrown"}
  /\ options' = opt
  /\ configAtCall' = config
  /\ maxRetries' = EffectiveMaxRetries(opt, config)
  /\ attempt' = 0
  /\ lastError' = NoError
  /\ failures' = 0
  /\ waits' = <<>>
  /\ result' = 0
  /\ IF LoopCondition(0, maxRetries')
       THEN pc' = "calling" /\ calls' = 1 /\ thrown' = NoError
       ELSE pc' = "thrown" /\ calls' = 0 /\ thrown' = UndefinedError
  /\ UNCHANGED config
  /\ UNCHANGED <<deliveryVars, registryVars, serviceVars>>

\* The awaited callable resolves: callFunction returns and so does the loop.
CallResolves ==
  /\ pc = "calling"
  /\ pc' = "returned"
  /\ result' = calls
  /\ UNCHANGED <<config, options, maxRetries, attempt, lastError, calls, failures,
                 waits, thrown, configAtCall>>
  /\ UNCHANGED <<deliveryVars, registryVars, serviceVars>>

\* The awaited callable rejects with err: callFunction throws the FunctionsError,
\* the catch block of the loop decides between throwing and backing off.
CallRejects(err) ==
  /\ pc = "calling"
  /\ LET error == handleFunctionError(err, calls) IN
       /\ lastError' = error
       /\ failures' = failures + 1
       /\ IF NonRetryable(error) \/ LastAttempt(attempt, maxRetries)
            THEN /\ pc' = "thrown"
                 /\ thrown' = ThrownError(error, lastError)
                 /\ waits' = waits
            ELSE /\ pc' = "waiting"
                 /\ waits' = Append(waits, BackoffTime(attempt))
                 /\ thrown' = thrown
  /\ UNCHANGED <<config, options, maxRetries, attempt, calls, result, configAtCall>>
  /\ UNCHANGED <<deliveryVars, registryVars, serviceVars>>

\* The backoff timer fires: attempt++, the loop condition is tested, and the next
\* iteration invokes the callable again.
BackoffElapses ==
  /\ pc = "waiting"
  /\ attempt' = attempt + 1
  /\ IF LoopCondition(attempt', maxRetries)
       THEN pc' = "calling" /\ calls' = calls + 1 /\ thrown' = thrown
       ELSE pc' = "thrown" /\ calls' = calls /\ thrown' = lastError
  /\ UNCHANGED <<config, options, maxRetries, lastError, failures, waits, result,
                 configAtCall>>
  /\ UNCHANGED <<deliveryVars, registryVars, serviceVars>>

RetryNext ==
  \/ \E v \in ConfigValues : UpdateConfig(v)
  \/ \E opt \in OptionValues : StartCall(opt)
  \/ CallResolves
  \/ \E err \in PlatformErrors : CallRejects(err)
  \/ BackoffElapses

\* ------------------------------------------- messaging service: operations

\* constructor default of config.timeout
DefaultPubSubTimeoutMs == 30000

\* A processing timeout a subscriber passes in options.timeout.
HandlerTimeoutMs == 5000

\* maxMessages: options.maxConcurrency || 10
DefaultMaxConcurrency == 10

\* flowControl.maxMessages of a subscription opened without options
ClientMaxMessages == 1000

MsgIds == 1 .. MaxMessages

NoListener == [on |-> FALSE]

PubSubTimeoutValues == { Undefined, Num(0), Num(DefaultPubSubTimeoutMs) }

HandlerTimeoutValues == { Undefined, Num(0), Num(HandlerTimeoutMs) }

\* A message the transport has not delivered yet.
Undelivered ==
  [ pc |-> "undelivered",      \* "undelivered" | "handling" | "done"
    valid |-> TRUE,            \* whether JSON.parse accepts the payload
    autoAcknowledge |-> FALSE, \* options.autoAcknowledge of the closure
    timeoutMs |-> Undefined,   \* the local timeoutMs
    timer |-> "none",          \* "none" | "armed" | "fired" | "cleared"
    handler |-> "notcalled",   \* "notcalled" | "pending" | "resolved" | "rejected"
    acks |-> 0,                \* ack() calls made by messageHandler
    nacks |-> 0,               \* nack() calls made by messageHandler
    logged |-> 0,              \* console.error calls made by messageHandler
    callback |-> "none" ]      \* "none" | "pending" | "resolved" | "rejected"

\* const timeoutMs = options.timeout || this.config.timeout
TimeoutMs(opt, cfg) == OrElse(opt, cfg)

\* if (timeoutMs) timeoutId = setTimeout(...)
TimerArmed(t) == Truthy(t)

\* A variant whose timer resolves the raced promise.
TimeoutSettlesResolve == "resolve"

\* setTimeout(() => reject(new Error('... timed out ...')), timeoutMs)
TimeoutSettles == "reject"

\* A variant that acknowledges whatever the options say.
OnSuccessAlwaysAck(r) == [r EXCEPT !.acks = @ + 1]

\* if (options.autoAcknowledge) await typedMessage.ack()
OnSuccess(r) == IF r.autoAcknowledge THEN [r EXCEPT !.acks = @ + 1] ELSE r

\* catch (handlerError) { await message.nack(); throw handlerError; }
InnerCatch(r) == [r EXCEPT !.nacks = @ + 1]

\* finally { if (timeoutId) clearTimeout(timeoutId) }
Finally(r) == IF r.timer = "armed" THEN [r EXCEPT !.timer = "cleared"] ELSE r

\* A variant that lets the failure escape to the transport.
OuterCatchRethrows(r) == [r EXCEPT !.callback = "rejected", !.pc = "done"]

\* catch (error) { console.error(...); await message.nack(); }  and the
\* messageHandler promise resolves.
OuterCatch(r) ==
  [r EXCEPT !.logged = @ + 1, !.nacks = @ + 1, !.callback = "resolved", !.pc = "done"]

\* The end of the inner try: the function returns normally.
Completes(r) == [r EXCEPT !.callback = "resolved", !.pc = "done"]

\* What follows  await Promise.race([handler(typedMessage), timeoutPromise]).
AfterRace(r, how) ==
  IF how = "resolve"
    THEN Completes(Finally(OnSuccess(r)))
    ELSE OuterCatch(Finally(InnerCatch(r)))

\* options.maxConcurrency of a subscriber
MaxConcurrencyValues == { Undefined, Num(1) }

\* maxMessages: options.maxConcurrency || 10
FlowControlMaxMessages(k) == OrElse(k, Num(DefaultMaxConcurrency))[1]

\* The messages whose messageHandler invocation has not returned yet.
InFlight == {m \in MsgIds : msgs[m].pc = "handling"}

\* subscribeToTopic(name, handler, {autoAcknowledge: auto, timeout: t,
\* maxConcurrency: k}): subscription.on('message', messageHandler).  The
\* subscription comes from this.pubsub.subscription(name) without options, so
\* its flow control is the client's; subscriptionOptions is built and dropped.
Subscribe(auto, t, k) ==
  /\ ~listener.on
  /\ listener' = [on |-> TRUE, autoAcknowledge |-> auto, timeout |-> t,
                  maxConcurrency |-> k,
                  subscriptionOptions |-> FlowControlMaxMessages(k),
                  flowControl |-> ClientMaxMessages]
  /\ UNCHANGED <<pubsubConfig, msgs>>
  /\ UNCHANGED <<retryVars, registryVars, serviceVars>>

\* The function subscribeToTopic returned: removeListener('message', messageHandler)
StopListening ==
  /\ listener.on
  /\ listener' = NoListener
  /\ UNCHANGED <<pubsubConfig, msgs>>
  /\ UNCHANGED <<retryVars, registryVars, serviceVars>>

\* The transport emits message m: messageHandler runs up to the await of the race.
\* A payload JSON.parse rejects goes straight to the outer catch.
Deliver(m, valid) ==
  /\ listener.on
  /\ Cardinality(InFlight) < listener.flowControl
  /\ msgs[m].pc = "undelivered"
  /\ LET t == TimeoutMs(listener.timeout, pubsubConfig)
         r == [msgs[m] EXCEPT !.valid = valid, !.callback = "pending"]
     IN msgs' = [msgs EXCEPT ![m] =
          IF ~valid
            THEN OuterCatch(r)
            ELSE [r EXCEPT !.pc = "handling",
                           !.autoAcknowledge = listener.autoAcknowledge,
                           !.timeoutMs = t,
                           !.timer = IF TimerArmed(t) THEN "armed" ELSE "none",
                           !.handler = "pending"]]
  /\ UNCHANGED <<pubsubConfig, listener>>
  /\ UNCHANGED <<retryVars, registryVars, serviceVars>>

\* The handler's promise resolves before any timeout.
HandlerResolves(m) ==
  /\ msgs[m].pc = "handling"
  /\ msgs[m].handler = "pending"
  /\ msgs' = [msgs EXCEPT ![m] = AfterRace([@ EXCEPT !.handler = "resolved"], "resolve")]
  /\ UNCHANGED <<pubsubConfig, listener>>
  /\ UNCHANGED <<retryVars, registryVars, serviceVars>>

\* The handler throws, or its promise rejects, before any timeout.
HandlerRejects(m) ==
  /\ msgs[m].pc = "handling"
  /\ msgs[m].handler = "pending"
  /\ msgs' = [msgs EXCEPT ![m] = AfterRace([@ EXCEPT !.handler = "rejected"], "reject")]
  /\ UNCHANGED <<pubsubConfig, listener>>
  /\ UNCHANGED <<retryVars, registryVars, serviceVars>>

\* The timer fires while the handler is still pending: the raced promise settles.
TimerFires(m) ==
  /\ msgs[m].pc = "handling"
  /\ msgs[m].timer = "armed"
  /\ msgs' = [msgs EXCEPT ![m] = AfterRace([@ EXCEPT !.timer = "fired"], TimeoutSettles)]
  /\ UNCHANGED <<pubsubConfig, listener>>
  /\ UNCHANGED <<retryVars, registryVars, serviceVars>>

\* The handler settles after the timeout won the race: nobody is waiting for it.
HandlerSettlesLate(m, ok) ==
  /\ msgs[m].pc = "done"
  /\ msgs[m].handler = "pending"
  /\ msgs' = [msgs EXCEPT ![m].handler = IF ok THEN "resolved" ELSE "rejected"]
  /\ UNCHANGED <<pubsubConfig, listener>>
  /\ UNCHANGED <<retryVars, registryVars, serviceVars>>

DeliveryNext ==
  \/ \E auto \in BOOLEAN, t \in HandlerTimeoutValues, k \in MaxConcurrencyValues :
       Subscribe(auto, t, k)
  \/ StopListening
  \/ \E m \in MsgIds, valid \in BOOLEAN : Deliver(m, valid)
  \/ \E m \in MsgIds : HandlerResolves(m)
  \/ \E m \in MsgIds : HandlerRejects(m)
  \/ \E m \in MsgIds : TimerFires(m)
  \/ \E m \in MsgIds, ok \in BOOLEAN : HandlerSettlesLate(m, ok)

\* ------------------------------ messaging service draft: operations

Names == {"orders", "events"}

\* A variant that looks up some registered handle when the name has none.
GetAny(map, n) ==
  IF map[n] # 0 THEN map[n]
  ELSE IF \E m \in Names : map[m] # 0
    THEN map[CHOOSE m \in Names : map[m] # 0]
    ELSE 0

\* this.activeSubscriptions.get(subscriptionName); 0 stands for undefined
Get(map, n) == map[n]

\* What a step of subscribeToTopic(n, ...) leaves in lastOp: which await it
\* followed ("call" | "exists" | "create"), what the transport answered there,
\* how the call stands, and the registry and the remote names before the step.
SubscribeOp(n, step, answer, outcome) ==
  [ op |-> "subscribeToTopic", name |-> n, result |-> outcome,
    step |-> step, answer |-> answer,
    before |-> [active |-> activeSubscriptions, subs |-> subscriptions],
    remoteBefore |-> remote ]

\* A variant that forgets the error listener.
RegisterMessageOnly(n, step, answer) ==
  /\ subscriptions' = Append(subscriptions, [name |-> n, message |-> 1, error |-> 0])
  /\ activeSubscriptions' = [activeSubscriptions EXCEPT ![n] = Len(subscriptions) + 1]
  /\ pending' = [pending EXCEPT ![n] = "none"]
  /\ lastOp' = SubscribeOp(n, step, answer, "ok")

\* subscription.on('message', ...); subscription.on('error', ...);
\* this.activeSubscriptions.set(subscriptionName, subscription)
\* on a Subscription object that this call obtained.
Register(n, step, answer) ==
  /\ subscriptions' = Append(subscriptions, [name |-> n, message |-> 1, error |-> 1])
  /\ activeSubscriptions' = [activeSubscriptions EXCEPT ![n] = Len(subscriptions) + 1]
  /\ pending' = [pending EXCEPT ![n] = "none"]
  /\ lastOp' = SubscribeOp(n, step, answer, "ok")

\* The outer catch of subscribeToTopic: nothing was registered or stored.
SubscribeFails(n) ==
  /\ pending' = [pending EXCEPT ![n] = "none"]
  /\ lastOp' = SubscribeOp(n, "create", "refused", "PubSubError")
  /\ UNCHANGED <<activeSubscriptions, subscriptions>>

\* subscribeToTopic(n, topic, handleMessage) up to  await ...exists()
SubscribeToTopic(n) ==
  /\ pending[n] = "none"
  /\ Len(subscriptions) < MaxHandles
  /\ pending' = [pending EXCEPT ![n] = "exists"]
  /\ lastOp' = SubscribeOp(n, "call", "none", "pending")
  /\ UNCHANGED <<activeSubscriptions, subscriptions, remote>>
  /\ UNCHANGED <<retryVars, deliveryVars, serviceVars>>

\* exists() answers: the subscription exists and is used as it is, or it does not
\* (or the check threw) and the call goes on to  await topic.createSubscription()
ExistsAnswers(n, threw) ==
  /\ pending[n] = "exists"
  /\ IF ~threw /\ n \in remote
       THEN Register(n, "exists", "yes")
       ELSE /\ pending' = [pending EXCEPT ![n] = "create"]
            /\ lastOp' = SubscribeOp(n, "exists", IF threw THEN "threw" ELSE "no",
                                     "pending")
            /\ UNCHANGED <<activeSubscriptions, subscriptions>>
  /\ UNCHANGED remote
  /\ UNCHANGED <<retryVars, deliveryVars, serviceVars>>

\* createSubscription() answers: the transport refuses (the name exists already,
\* or any other failure) or creates the subscription.
CreateAnswers(n, refused) ==
  /\ pending[n] = "create"
  /\ IF refused \/ n \in remote
       THEN SubscribeFails(n) /\ UNCHANGED remote
       ELSE Register(n, "create", "created") /\ remote' = remote \cup {n}
  /\ UNCHANGED <<retryVars, deliveryVars, serviceVars>>

\* unsubscribe(n): runs to completion, it awaits nothing.
Unsubscribe(n) ==
  LET subscription == Get(activeSubscriptions, n)
      before == [active |-> activeSubscriptions, subs |-> subscriptions]
      registered == activeSubscriptions[n] # 0
  IN
  /\ IF subscription = 0
       THEN /\ lastOp' = [op |-> "unsubscribe", name |-> n, result |-> "PubSubError",
                          registered |-> registered, before |-> before]
            /\ UNCHANGED <<activeSubscriptions, subscriptions>>
       ELSE /\ subscriptions' =
                 [subscriptions EXCEPT ![subscription].message = 0,
                                       ![subscription].error = 0]
            /\ activeSubscriptions' = [activeSubscriptions EXCEPT ![n] = 0]
            /\ lastOp' = [op |-> "unsubscribe", name |-> n, result |-> "ok",
                          registered |-> registered, before |-> before]
  /\ UNCHANGED <<pending, remote>>
  /\ UNCHANGED <<retryVars, deliveryVars, serviceVars>>

\* The transport emits a message on Subscription object h: every message listener
\* still registered on it calls its handleMessage.
EmitMessage(h) ==
  /\ h \in 1 .. Len(subscriptions)
  /\ subscriptions[h].message > 0
  /\ lastOp' = [op |-> "message", name |-> subscriptions[h].name, result |-> "handled"]
  /\ UNCHANGED <<activeSubscriptions, subscriptions, pending, remote>>
  /\ UNCHANGED <<retryVars, deliveryVars, serviceVars>>

RegistryNext ==
  \/ \E n \in Names : SubscribeToTopic(n)
  \/ \E n \in Names, threw \in BOOLEAN : ExistsAnswers(n, threw)
  \/ \E n \in Names, refused \in BOOLEAN : CreateAnswers(n, refused)
  \/ \E n \in Names : Unsubscribe(n)
  \/ \E h \in 1 .. MaxHandles : EmitMessage(h)

\* ----------------------- messaging service: topics and subscriptions

Kinds == {"topic", "subscription"}

CreateSlots == 1 .. MaxCreateCalls

\* What the transport rejects a request with: an Error whose message reads
\* "<code> <STATUS>: <details>", or a thrown value that is not an Error.
AlreadyExistsError ==
  [ isError |-> TRUE, status |-> "ALREADY_EXISTS",
    message |-> <<"6", "ALREADY_EXISTS", ":", "Resource already exists">> ]

NotFoundError ==
  [ isError |-> TRUE, status |-> "NOT_FOUND",
    message |-> <<"5", "NOT_FOUND", ":", "Resource not found">> ]

PermissionDeniedError ==
  [ isError |-> TRUE, status |-> "PERMISSION_DENIED",
    message |-> <<"7", "PERMISSION_DENIED", ":", "User not authorized">> ]

ThrownValue ==
  [ isError |-> FALSE, status |-> "UNKNOWN", message |-> <<"socket hang up">> ]

TransportErrors ==
  {AlreadyExistsError, NotFoundError, PermissionDeniedError, ThrownValue}

\* String.includes, on the words of the message.
Includes(message, word) == \E i \in 1 .. Len(message) : message[i] = word

NeverAlreadyExists(error) == FALSE

\* error instanceof Error && error.message.includes('ALREADY_EXISTS')
IsAlreadyExists(error) ==
  error.isError /\ Includes(error.message, "ALREADY_EXISTS")

CreationFailedCode(k) ==
  IF k = "topic" THEN "topic-creation-failed" ELSE "subscription-creation-failed"

AccessFailedCode(k) ==
  IF k = "topic" THEN "topic-access-failed" ELSE "subscription-access-failed"

IdleCall ==
  [ fn |-> "none", kind |-> "none", pc |-> "idle", saw |-> "none",
    answer |-> "none", outcome |-> "none", code |-> "none" ]

NoCreation == [remote |-> {}, calls |-> [c \in CreateSlots |-> IdleCall]]

SetCall(c, call) == creation' = [creation EXCEPT !.calls[c] = call]

\* The catch block of createTopic / createSubscription.
CreateCatch(call, error) ==
  IF IsAlreadyExists(error)
    THEN [call EXCEPT !.pc = "done", !.answer = error.status,
                      !.outcome = "handle"]
    ELSE [call EXCEPT !.pc = "done", !.answer = error.status,
                      !.outcome = "PubSubError",
                      !.code = CreationFailedCode(call.kind)]

\* createTopic(name) / createSubscription(topic, name) is called: the request
\* to the transport is awaited.
CallCreate(c, k) ==
  /\ creation.calls[c].pc = "idle"
  /\ SetCall(c, [IdleCall EXCEPT !.fn = "create", !.kind = k, !.pc = "create"])
  /\ UNCHANGED <<baseVars, documents, codec, functions, manager>>

\* getOrCreateTopic / getOrCreateSubscription is called: exists() is awaited.
CallGetOrCreate(c, k) ==
  /\ creation.calls[c].pc = "idle"
  /\ SetCall(c, [IdleCall EXCEPT !.fn = "getOrCreate", !.kind = k,
                                 !.pc = "exists"])
  /\ UNCHANGED <<baseVars, documents, codec, functions, manager>>

\* exists() settles: the handle is returned, or create* is called, or the
\* failure of exists() is wrapped.
ExistsSettles(c, threw) ==
  LET call == creation.calls[c] IN
  /\ call.pc = "exists"
  /\ SetCall(c,
       IF threw
         THEN [call EXCEPT !.pc = "done", !.saw = "threw",
                           !.outcome = "PubSubError",
                           !.code = AccessFailedCode(call.kind)]
       ELSE IF call.kind \in creation.remote
         THEN [call EXCEPT !.pc = "done", !.saw = "yes", !.outcome = "handle"]
         ELSE [call EXCEPT !.pc = "create", !.saw = "no"])
  /\ UNCHANGED <<baseVars, documents, codec, functions, manager>>

\* The transport creates the resource: it did not exist, and a subscription
\* has its topic.
CreateSucceeds(c) ==
  LET call == creation.calls[c] IN
  /\ call.pc = "create"
  /\ call.kind \notin creation.remote
  /\ call.kind = "subscription" => "topic" \in creation.remote
  /\ creation' = [creation EXCEPT
       !.remote = @ \cup {call.kind},
       !.calls[c] = [call EXCEPT !.pc = "done", !.answer = "created",
                                 !.outcome = "handle"]]
  /\ UNCHANGED <<baseVars, documents, codec, functions, manager>>

\* The transport rejects the creation: 'already exists' for a resource that
\* exists, 'not found' for a subscription without its topic, or a failure
\* that has nothing to do with the resource.
CreateFails(c, error) ==
  LET call == creation.calls[c] IN
  /\ call.pc = "create"
  /\ error = AlreadyExistsError => call.kind \in creation.remote
  /\ error = NotFoundError =>
       call.kind = "subscription" /\ "topic" \notin creation.remote
  /\ SetCall(c, CreateCatch(call, error))
  /\ UNCHANGED <<baseVars, documents, codec, functions, manager>>

\* The caller has its answer; the slot serves the next call.
CallReturns(c) ==
  /\ creation.calls[c].pc = "done"
  /\ SetCall(c, IdleCall)
  /\ UNCHANGED <<baseVars, documents, codec, functions, manager>>

CreateNext ==
  \/ \E c \in CreateSlots, k \in Kinds : CallCreate(c, k)
  \/ \E c \in CreateSlots, k \in Kinds : CallGetOrCreate(c, k)
  \/ \E c \in CreateSlots, threw \in BOOLEAN : ExistsSettles(c, threw)
  \/ \E c \in CreateSlots : CreateSucceeds(c)
  \/ \E c \in CreateSlots, error \in TransportErrors : CreateFails(c, error)
  \/ \E c \in CreateSlots : CallReturns(c)

\* ------------------------------------------- payloads: JSON text and bytes

\* A JSON value: its type and what a value of that type holds (b of a
\* boolean, n of a number, the characters s of a string, the elements e of an
\* array, the members m of an object, each a key and a value).
JNull == [t |-> "null", b |-> FALSE, n |-> 0, s |-> <<>>, e |-> <<>>, m |-> <<>>]

JBool(b) == [JNull EXCEPT !.t = "bool", !.b = b]

JNumber(n) == [JNull EXCEPT !.t = "num", !.n = n]

JString(chars) == [JNull EXCEPT !.t = "str", !.s = chars]

JArray(elements) == [JNull EXCEPT !.t = "arr", !.e = elements]

JObject(members) == [JNull EXCEPT !.t = "obj", !.m = members]

Member(key, value) == [key |-> key, value |-> value]

Digits == <<"0", "1", "2", "3", "4", "5", "6", "7", "8", "9">>

IsDigit(c) == \E d \in 1 .. 10 : Digits[d] = c

DigitValue(c) == (CHOOSE d \in 1 .. 10 : Digits[d] = c) - 1

\* The characters of the model and their codes in a Buffer (UTF-8, one byte
\* each).
Alphabet ==
  <<" ", "\"", ",", "0", "1", "2", "3", "4", "5", "6", "7", "8", "9", ":",
    "[", "\\", "]", "a", "e", "f", "g", "i", "l", "m", "n", "p", "r", "s",
    "t", "u", "x", "{", "}">>

Codes ==
  <<32, 34, 44, 48, 49, 50, 51, 52, 53, 54, 55, 56, 57, 58,
    91, 92, 93, 97, 101, 102, 103, 105, 108, 109, 110, 112, 114, 115,
    116, 117, 120, 123, 125>>

CharCode(c) == Codes[CHOOSE i \in 1 .. Len(Alphabet) : Alphabet[i] = c]

CharOf(b) == Alphabet[CHOOSE i \in 1 .. Len(Codes) : Codes[i] = b]

\* Buffer.from(text)
BufferFrom(text) == [i \in 1 .. Len(text) |-> CharCode(text[i])]

\* buffer.toString()
BufferToString(buffer) == [i \in 1 .. Len(buffer) |-> CharOf(buffer[i])]

NullWord == <<"n", "u", "l", "l">>

TrueWord == <<"t", "r", "u", "e">>

FalseWord == <<"f", "a", "l", "s", "e">>

\* JSON.stringify: numbers in decimal, strings quoted with '"' and '\'
\* escaped, arrays and objects without white space.
RECURSIVE DigitsOf(_)
DigitsOf(n) ==
  IF n < 10 THEN <<Digits[n + 1]>>
  ELSE Append(DigitsOf(n \div 10), Digits[(n % 10) + 1])

RECURSIVE Escape(_)
Escape(chars) ==
  IF chars = <<>> THEN <<>>
  ELSE (IF Head(chars) \in {"\"", "\\"} THEN <<"\\", Head(chars)>>
        ELSE <<Head(chars)>>) \o Escape(Tail(chars))

Quote(chars) == <<"\"">> \o Escape(chars) \o <<"\"">>

RECURSIVE Stringify(_)
RECURSIVE JoinElements(_)
RECURSIVE JoinMembers(_)
Stringify(value) ==
  CASE value.t = "null" -> NullWord
    [] value.t = "bool" -> (IF value.b THEN TrueWord ELSE FalseWord)
    [] value.t = "num" -> DigitsOf(value.n)
    [] value.t = "str" -> Quote(value.s)
    [] value.t = "arr" -> <<"[">> \o JoinElements(value.e) \o <<"]">>
    [] value.t = "obj" -> <<"{">> \o JoinMembers(value.m) \o <<"}">>

JoinElements(elements) ==
  IF elements = <<>> THEN <<>>
  ELSE IF Len(elements) = 1 THEN Stringify(elements[1])
  ELSE Stringify(elements[1]) \o <<",">> \o JoinElements(Tail(elements))

JoinMembers(members) ==
  IF members = <<>> THEN <<>>
  ELSE IF Len(members) = 1
    THEN Quote(members[1].key) \o <<":">> \o Stringify(members[1].value)
  ELSE Quote(members[1].key) \o <<":">> \o Stringify(members[1].value)
         \o <<",">> \o JoinMembers(Tail(members))

\* JSON.parse: a parse step answers with the value and the position after
\* it, or fails (SyntaxError).
ParseFailure == [ok |-> FALSE, v |-> JNull, i |-> 0]

Parsed(value, next) == [ok |-> TRUE, v |-> value, i |-> next]

RECURSIVE SkipWs(_, _)
SkipWs(s, i) == IF i <= Len(s) /\ s[i] = " " THEN SkipWs(s, i + 1) ELSE i

Literal(s, i, word) ==
  /\ i + Len(word) - 1 <= Len(s)
  /\ \A k \in 1 .. Len(word) : s[i + k - 1] = word[k]

RECURSIVE ScanDigits(_, _, _)
ScanDigits(s, i, acc) ==
  IF i <= Len(s) /\ IsDigit(s[i])
    THEN ScanDigits(s, i + 1, acc * 10 + DigitValue(s[i]))
    ELSE Parsed(JNumber(acc), i)

\* A leading zero ends the number.
ParseNumber(s, i) ==
  IF s[i] = "0" THEN Parsed(JNumber(0), i + 1) ELSE ScanDigits(s, i, 0)

\* The characters after an opening quote, up to the closing one.
RECURSIVE ScanString(_, _, _)
ScanString(s, i, acc) ==
  IF i > Len(s) THEN ParseFailure
  ELSE IF s[i] = "\"" THEN Parsed(JString(acc), i + 1)
  ELSE IF s[i] = "\\"
    THEN IF i + 1 <= Len(s) /\ s[i + 1] \in {"\"", "\\"}
           THEN ScanString(s, i + 2, Append(acc, s[i + 1]))
           ELSE ParseFailure
  ELSE ScanString(s, i + 1, Append(acc, s[i]))

\* A later member with the same key replaces the earlier one.
SetMember(members, key, value) ==
  IF \E k \in 1 .. Len(members) : members[k].key = key
    THEN [k \in 1 .. Len(members) |->
            IF members[k].key = key THEN Member(key, value) ELSE members[k]]
    ELSE Append(members, Member(key, value))

RECURSIVE ParseValue(_, _)
RECURSIVE ParseElements(_, _, _)
RECURSIVE ParseMembers(_, _, _)
ParseValue(s, start) ==
  LET i == SkipWs(s, start) IN
  IF i > Len(s) THEN ParseFailure
  ELSE IF s[i] = "n"
    THEN IF Literal(s, i, NullWord) THEN Parsed(JNull, i + 4) ELSE ParseFailure
  ELSE IF s[i] = "t"
    THEN IF Literal(s, i, TrueWord) THEN Parsed(JBool(TRUE), i + 4)
         ELSE ParseFailure
  ELSE IF s[i] = "f"
    THEN IF Literal(s, i, FalseWord) THEN Parsed(JBool(FALSE), i + 5)
         ELSE ParseFailure
  ELSE IF IsDigit(s[i]) THEN ParseNumber(s, i)
  ELSE IF s[i] = "\"" THEN ScanString(s, i + 1, <<>>)
  ELSE IF s[i] = "["
    THEN LET j == SkipWs(s, i + 1) IN
         IF j <= Len(s) /\ s[j] = "]" THEN Parsed(JArray(<<>>), j + 1)
         ELSE ParseElements(s, j, <<>>)
  ELSE IF s[i] = "{"
    THEN LET j == SkipWs(s, i + 1) IN
         IF j <= Len(s) /\ s[j] = "}" THEN Parsed(JObject(<<>>), j + 1)
         ELSE ParseMembers(s, j, <<>>)
  ELSE ParseFailure

ParseElements(s, i, acc) ==
  LET e == ParseValue(s, i)
      j == SkipWs(s, e.i)
  IN  IF ~e.ok \/ j > Len(s) THEN ParseFailure
      ELSE IF s[j] = "," THEN ParseElements(s, j + 1, Append(acc, e.v))
      ELSE IF s[j] = "]" THEN Parsed(JArray(Append(acc, e.v)), j + 1)
      ELSE ParseFailure

ParseMembers(s, i, acc) ==
  LET q == SkipWs(s, i)
      key == ScanString(s, q + 1, <<>>)
      colon == SkipWs(s, key.i)
      e == ParseValue(s, colon + 1)
      j == SkipWs(s, e.i)
  IN  IF q > Len(s) \/ s[q] # "\"" THEN ParseFailure
      ELSE IF ~key.ok \/ colon > Len(s) THEN ParseFailure
      ELSE IF s[colon] # ":" THEN ParseFailure
      ELSE IF ~e.ok \/ j > Len(s) THEN ParseFailure
      ELSE IF s[j] = ","
        THEN ParseMembers(s, j + 1, SetMember(acc, key.v.s, e.v))
      ELSE IF s[j] = "}"
        THEN Parsed(JObject(SetMember(acc, key.v.s, e.v)), j + 1)
      ELSE ParseFailure

\* JSON.parse(text): one value and nothing but white space after it.
JSONParse(text) ==
  LET r == ParseValue(text, 1) IN
  IF r.ok /\ SkipWs(text, r.i) > Len(text) THEN r ELSE ParseFailure

\* ------------------------------------------ payloads: publish and receive

StringChars == {"0", "1", "x", " ", "\"", "\\"}

RECURSIVE StringsUpTo(_)
StringsUpTo(n) ==
  IF n = 0 THEN {<<>>}
  ELSE LET shorter == StringsUpTo(n - 1) IN
       shorter \cup {Append(s, c) : s \in shorter, c \in StringChars}

PlainText ==
  <<"p", "l", "a", "i", "n", " ", "t", "e", "x", "t", " ",
    "m", "e", "s", "s", "a", "g", "e">>

\* Strings that read as JSON text, and one that does not.
ExampleStrings ==
  { PlainText, <<"1", "2", "3">>, TrueWord, NullWord, <<"[", "1", "]">>,
    <<"{", "\"", "a", "\"", ":", "1", "}">> }

Strings == StringsUpTo(MaxStringLen) \cup ExampleStrings

Primitives ==
  {JNull, JBool(TRUE), JBool(FALSE)}
    \cup {JNumber(n) : n \in 0 .. MaxNumber} \cup {JNumber(123)}
    \cup {JString(s) : s \in Strings}

\* What arrays and objects hold.
Elements ==
  { JNull, JBool(TRUE), JNumber(10), JString(<<"1">>), JString(<<"\"">>),
    JArray(<<>>), JObject(<<Member(<<"a">>, JNumber(1))>>) }

Arrays ==
  {JArray(es) : es \in UNION {[1 .. n -> Elements] : n \in 0 .. MaxArrayLen}}

Objects ==
  {JObject(<<>>)} \cup {JObject(<<Member(<<"a">>, e)>>) : e \in Elements}

Payloads == Primitives \cup Arrays \cup Objects

NothingReceived == [ok |-> FALSE, v |-> JNull]

IdleCodec ==
  [ payload |-> JNull, publisher |-> "none", data |-> <<>>,
    reader |-> "none", received |-> NothingReceived ]

\* typeof data === 'string' ? Buffer.from(data)
\*                          : Buffer.from(JSON.stringify(data))
DraftMessageData(data) ==
  IF data.t = "str" THEN BufferFrom(data.s) ELSE BufferFrom(Stringify(data))

\* Buffer.from(JSON.stringify(message))
MessageBuffer(message) == BufferFrom(Stringify(message))

\* parseMessageData: the parsed value, or the text when it is not JSON.
ParseMessageData(data) ==
  LET text == BufferToString(data)
      r == JSONParse(text)
  IN  IF r.ok THEN [ok |-> TRUE, v |-> r.v] ELSE [ok |-> TRUE, v |-> JString(text)]

\* The first statement of messageHandler: the parsed value, or the
\* SyntaxError that the outer catch block receives.
HandlerData(data) ==
  LET r == JSONParse(BufferToString(data))
  IN  IF r.ok THEN [ok |-> TRUE, v |-> r.v] ELSE NothingReceived

\* publishMessage of the draft service: data is a string or an object.
PublishMessageDraft ==
  /\ codec.publisher = "none"
  /\ codec.payload.t \in {"str", "arr", "obj"}
  /\ codec' = [codec EXCEPT !.publisher = "draft",
                            !.data = DraftMessageData(codec.payload)]
  /\ UNCHANGED <<baseVars, documents, creation, functions, manager>>

\* publishMessage of the service.
PublishMessage ==
  /\ codec.publisher = "none"
  /\ codec' = [codec EXCEPT !.publisher = "service",
                            !.data = MessageBuffer(codec.payload)]
  /\ UNCHANGED <<baseVars, documents, creation, functions, manager>>

\* The subscriber reads the message with parseMessageData.
ReadWithParseMessageData ==
  /\ codec.publisher # "none"
  /\ codec.reader = "none"
  /\ codec' = [codec EXCEPT !.reader = "parseMessageData",
                            !.received = ParseMessageData(codec.data)]
  /\ UNCHANGED <<baseVars, documents, creation, functions, manager>>

\* The message reaches the messageHandler of the service.
ReadWithMessageHandler ==
  /\ codec.publisher # "none"
  /\ codec.reader = "none"
  /\ codec' = [codec EXCEPT !.reader = "messageHandler",
                            !.received = HandlerData(codec.data)]
  /\ UNCHANGED <<baseVars, documents, creation, functions, manager>>

CodecNext ==
  \/ PublishMessageDraft
  \/ PublishMessage
  \/ ReadWithParseMessageData
  \/ ReadWithMessageHandler

\* ------------------------------------------- function facade: region cache

DefaultRegion == "us-central1"

Regions == {"us-central1", "europe-west1"}

\* options?.region of a call: absent, or the name of a region.
RegionOptions == {Undefined} \cup {<<r>> : r \in Regions}

\* A Functions instance of the SDK: the region it is bound to and whether it
\* was connected to the emulator.
NoInstance == [region |-> "none", emulator |-> FALSE]

\* getFunctions(this.app, region), then connectFunctionsEmulator if configured
NewInstance(region, emulatorConfig) ==
  [region |-> region, emulator |-> emulatorConfig]

NeverHas(instances, region) == FALSE

\* this.functionsInstances.has(region)
Has(instances, region) == instances[region] # NoInstance

\* getFunctionsInstance(region): the map afterwards, the instance returned,
\* and whether getFunctions of the SDK was invoked.
getFunctionsInstance(service, region) ==
  IF ~Has(service.functionsInstances, region)
    THEN [ functionsInstances |->
             [service.functionsInstances EXCEPT
                ![region] = NewInstance(region, service.emulatorConfig)],
           instance |-> NewInstance(region, service.emulatorConfig),
           sdk |-> TRUE ]
    ELSE [ functionsInstances |-> service.functionsInstances,
           instance |-> service.functionsInstances[region],
           sdk |-> FALSE ]

\* const region = options?.region || 'us-central1'
RegionOf(opt) == IF opt = Undefined \/ opt[1] = "" THEN DefaultRegion ELSE opt[1]

\* new FunctionsService(app, emulatorConfig); getFunctionsCalls counts the
\* invocations of getFunctions per region since construction or cleanup().
NewService(emulatorConfig) ==
  [ emulatorConfig |-> emulatorConfig,
    functionsInstances |-> [r \in Regions |-> NoInstance],
    getFunctionsCalls |-> [r \in Regions |-> 0] ]

\* The FunctionsService of the draft: the Functions instance given to its
\* constructor.
DraftService(region) == [functions |-> NewInstance(region, FALSE)]

\* Nothing caught.
NoCaught == [hasCode |-> FALSE, code |-> <<>>, message |-> <<>>]

NoCall ==
  [ op |-> "none", service |-> 0, region |-> Undefined, used |-> "none",
    sdk |-> FALSE, cachedBefore |-> FALSE, outcome |-> "none",
    caught |-> NoCaught, thrown |-> NoError ]

\* The catch block of callFunction: new FunctionsError(error.message ||
\* `Error calling function: ${functionName}`, functionName, error.code, error)
ServiceFunctionsError(error) ==
  [ kind |-> "FunctionsError",
    message |-> IF error.message # <<>> THEN error.message
                ELSE <<"Error calling function: ", FunctionName>>,
    functionName |-> FunctionName,
    code |-> error.code,
    originalError |-> error ]

NewFunctions ==
  [ services |-> <<>>, draft |-> DraftService(DefaultRegion),
    pending |-> {}, last |-> NoCall ]

\* callFunction up to the await: the region, its Functions instance, the
\* callable made from it and invoked.
CallFunction(s, opt) ==
  LET service == functions.services[s]
      region == RegionOf(opt)
      got == getFunctionsInstance(service, region)
  IN
  /\ service.getFunctionsCalls[region] < MaxGetFunctions
  /\ functions' = [functions EXCEPT
       !.services[s] =
          [service EXCEPT
             !.functionsInstances = got.functionsInstances,
             !.getFunctionsCalls[region] = IF got.sdk THEN @ + 1 ELSE @],
       !.pending = @ \cup {<<s, got.instance.region>>},
       !.last = [ op |-> "callFunction", service |-> s, region |-> opt,
                  used |-> got.instance.region, sdk |-> got.sdk,
                  cachedBefore |-> service.functionsInstances[region] # NoInstance,
                  outcome |-> "pending", caught |-> NoCaught,
                  thrown |-> NoError ]]
  /\ UNCHANGED <<baseVars, documents, creation, codec, manager>>

\* callFunction of the draft up to the await: the callable is made from
\* this.functions, with the timeout as its only option.
DraftCallFunction(opt) ==
  /\ functions' = [functions EXCEPT
       !.pending = @ \cup {<<0, functions.draft.functions.region>>},
       !.last = [ op |-> "draftCallFunction", service |-> 0, region |-> opt,
                  used |-> functions.draft.functions.region, sdk |-> FALSE,
                  cachedBefore |-> TRUE, outcome |-> "pending",
                  caught |-> NoCaught, thrown |-> NoError ]]
  /\ UNCHANGED <<baseVars, documents, creation, codec, manager>>

\* The callable settles: result.data is returned, or the error it rejects
\* with is wrapped in a FunctionsError and thrown, by the catch block of the
\* service or by handleFunctionError of the draft (service 0).
CallableSettles(p, ok, error) ==
  /\ p \in functions.pending
  /\ functions' = [functions EXCEPT
       !.pending = @ \ {p},
       !.last =
          IF ok
            THEN [ NoCall EXCEPT !.op = "settled", !.service = p[1],
                                 !.used = p[2], !.outcome = "data" ]
            ELSE [ NoCall EXCEPT !.op = "settled", !.service = p[1],
                                 !.used = p[2], !.outcome = "FunctionsError",
                                 !.caught = error,
                                 !.thrown =
                                    IF p[1] = 0
                                      THEN handleFunctionError(error, 0)
                                      ELSE ServiceFunctionsError(error) ]]
  /\ UNCHANGED <<baseVars, documents, creation, codec, manager>>

\* FunctionsService.cleanup(): this.functionsInstances.clear()
FunctionsCleanup(s) ==
  /\ functions' = [functions EXCEPT
       !.services[s] = NewService(functions.services[s].emulatorConfig),
       !.last = [NoCall EXCEPT !.op = "cleanup", !.service = s]]
  /\ UNCHANGED <<baseVars, documents, creation, codec, manager>>

FunctionsNext ==
  \/ \E s \in 1 .. Len(functions.services), opt \in RegionOptions :
       CallFunction(s, opt)
  \/ \E opt \in RegionOptions : DraftCallFunction(opt)
  \/ \E p \in functions.pending, ok \in BOOLEAN, error \in PlatformErrors :
       CallableSettles(p, ok, error)
  \/ \E s \in 1 .. Len(functions.services) : FunctionsCleanup(s)

\* ------------------------------------------------------------- the manager

Getters ==
  {"getFirestore", "getFirestoreService", "getFunctionsService",
   "getPubSubService"}

FacadeGetters == Getters \ {"getFirestore"}

\* null, and the Firestore instance the SDK has for the app.
Null == 0

AppFirestore == 1

AlwaysNull(handle) == TRUE

\* if (!this.handle)
IsNull(handle) == handle = Null

\* new PubSubService(): the names its subscriptions listen under.
NewPubSubService == [listening |-> {}]

\* The fields of a FirebaseManager after its constructor, the facades it has
\* constructed, and for the properties: how often the SDK was asked
\* (getFirestoreCalls, persistenceCalls) and what each getter returned since
\* construction or the last cleanup() and before that (earlier).
NewManager ==
  [ config |-> [enablePersistence |-> FALSE, functionsEmulator |-> FALSE],
    firestoreInstance |-> Null,
    firestoreService |-> Null,
    functionsService |-> Null,
    pubSubService |-> Null,
    initialized |-> TRUE,
    firestoreServices |-> 0,
    pubsubs |-> <<>>,
    getFirestoreCalls |-> 0,
    persistenceCalls |-> 0,
    returned |-> [g \in Getters |-> {}],
    earlier |-> [g \in Getters |-> {}],
    last |-> [op |-> "constructor", returned |-> Null, created |-> FALSE,
              callers |-> {}, listeners |-> {}] ]

\* The body of getFirestore(): the manager afterwards.
getFirestore(m) ==
  IF IsNull(m.firestoreInstance)
    THEN [m EXCEPT !.firestoreInstance = AppFirestore,
                   !.getFirestoreCalls = @ + 1,
                   !.persistenceCalls =
                      IF m.config.enablePersistence THEN @ + 1 ELSE @]
    ELSE m

\* What a getter hands to its caller, and whether it constructed it.
\* A variant whose getters mark the manager initialized again.
ReturnsInitialized(m, getter, handle, created) ==
  [m EXCEPT !.initialized = TRUE,
            !.returned[getter] = @ \cup {handle},
            !.last = [op |-> getter, returned |-> handle, created |-> created,
                      callers |-> {}, listeners |-> {}]]

\* isInitialized(): return this.initialized
isInitialized(m) == m.initialized

Returns(m, getter, handle, created) ==
  [m EXCEPT !.returned[getter] = @ \cup {handle},
            !.last = [op |-> getter, returned |-> handle, created |-> created,
                      callers |-> {}, listeners |-> {}]]

GetFirestore ==
  /\ manager.getFirestoreCalls < MaxFacades
  /\ manager' = Returns(getFirestore(manager), "getFirestore",
                        getFirestore(manager).firestoreInstance,
                        IsNull(manager.firestoreInstance))
  /\ UNCHANGED <<baseVars, documents, creation, codec, functions>>

GetFirestoreService ==
  /\ IF IsNull(manager.firestoreService)
       THEN LET m == getFirestore(manager)
                service == m.firestoreServices + 1
            IN  /\ manager.firestoreServices < MaxFacades
                /\ manager.getFirestoreCalls < MaxFacades
                /\ manager' = Returns([m EXCEPT !.firestoreServices = service,
                                                !.firestoreService = service],
                                      "getFirestoreService", service, TRUE)
       ELSE manager' = Returns(manager, "getFirestoreService",
                               manager.firestoreService, FALSE)
  /\ UNCHANGED <<baseVars, documents, creation, codec, functions>>

GetFunctionsService ==
  /\ IF IsNull(manager.functionsService)
       THEN LET service == Len(functions.services) + 1 IN
            /\ Len(functions.services) < MaxFacades
            /\ functions' = [functions EXCEPT !.services =
                 Append(@, NewService(manager.config.functionsEmulator))]
            /\ manager' = Returns([manager EXCEPT !.functionsService = service],
                                  "getFunctionsService", service, TRUE)
       ELSE /\ manager' = Returns(manager, "getFunctionsService",
                                  manager.functionsService, FALSE)
            /\ UNCHANGED functions
  /\ UNCHANGED <<baseVars, documents, creation, codec>>

GetPubSubService ==
  /\ IF IsNull(manager.pubSubService)
       THEN LET service == Len(manager.pubsubs) + 1 IN
            /\ Len(manager.pubsubs) < MaxFacades
            /\ manager' = Returns([manager EXCEPT
                                     !.pubsubs = Append(@, NewPubSubService),
                                     !.pubSubService = service],
                                  "getPubSubService", service, TRUE)
       ELSE manager' = Returns(manager, "getPubSubService",
                               manager.pubSubService, FALSE)
  /\ UNCHANGED <<baseVars, documents, creation, codec, functions>>

\* The regions a function facade has a cached instance for, per facade.
CachedCallers(f) ==
  { <<s, r>> \in (1 .. Len(f.services)) \X Regions :
      f.services[s].functionsInstances[r] # NoInstance }

\* The names a messaging facade listens under, per facade.
Listeners(pubsubs) ==
  { <<p, n>> \in (1 .. Len(pubsubs)) \X Names : n \in pubsubs[p].listening }

ResetFirestoreOnly(m) ==
  [m EXCEPT !.firestoreInstance = Null, !.firestoreService = Null,
            !.initialized = FALSE]

\* The assignments of cleanup().
Reset(m) ==
  [m EXCEPT !.firestoreInstance = Null,
            !.firestoreService = Null,
            !.functionsService = Null,
            !.pubSubService = Null,
            !.initialized = FALSE]

\* cleanup(): the four handles are set to null and initialized to false; no
\* method of a facade is called.  last records what the facades made so far
\* still hold when cleanup returns.
Cleanup ==
  /\ UNCHANGED functions
  /\ manager' = [Reset(manager) EXCEPT
       !.getFirestoreCalls = 0,
       !.persistenceCalls = 0,
       !.earlier = [g \in Getters |-> @[g] \cup manager.returned[g]],
       !.returned = [g \in Getters |-> {}],
       !.last = [op |-> "cleanup", returned |-> Null, created |-> FALSE,
                 callers |-> CachedCallers(functions'),
                 listeners |-> Listeners(manager.pubsubs)]]
  /\ UNCHANGED <<baseVars, documents, creation, codec>>

\* A holder of messaging facade p subscribes under name n, or unsubscribes.
FacadeSubscribe(p, n) ==
  /\ manager' = [manager EXCEPT !.pubsubs[p].listening = @ \cup {n}]
  /\ UNCHANGED <<baseVars, documents, creation, codec, functions>>

FacadeUnsubscribe(p, n) ==
  /\ n \in manager.pubsubs[p].listening
  /\ manager' = [manager EXCEPT !.pubsubs[p].listening = @ \ {n}]
  /\ UNCHANGED <<baseVars, documents, creation, codec, functions>>

ManagerNext ==
  \/ GetFirestore
  \/ GetFirestoreService
  \/ GetFunctionsService
  \/ GetPubSubService
  \/ Cleanup
  \/ \E s \in 1 .. Len(functions.services) : CallFunction(s, Undefined)
  \/ \E p \in 1 .. Len(manager.pubsubs) : FacadeSubscribe(p, "orders")
  \/ \E p \in 1 .. Len(manager.pubsubs) : FacadeUnsubscribe(p, "orders")

\* ------------------------------------------------------ the document facade

\* FirestoreService of src/src/index.ts over a store of two documents in one
\* collection.  A document's data is a map from field names to values, Absent
\* marking a field the data does not have.

CollectionPath == "users"

DocOrder == <<"users/a", "users/b">>

Paths == {DocOrder[i] : i \in 1 .. Len(DocOrder)}

\* doc.id: the last segment of the path
DocId(path) == IF path = "users/a" THEN "a" ELSE "b"

Fields == {"id", "name"}

Absent == "absent"

\* The values a field takes: an id may coincide with a document id.
FieldValues(f) == IF f = "id" THEN {"a", "x"} ELSE {"x"}

DataValues ==
  {d \in [Fields -> {Absent, "a", "x"}] : \A f \in Fields : d[f] \in {Absent} \cup FieldValues(f)}

NoData == [f \in Fields |-> Absent]

NoDocument == [exists |-> FALSE, data |-> NoData]

\* setDoc options: not supplied, { merge: true }, { merge: false }
NoSetOptions == [given |-> FALSE, merge |-> FALSE]

SetOptionsValues ==
  {NoSetOptions} \cup {[given |-> TRUE, merge |-> b] : b \in BOOLEAN}

\* What the client rejects with: an error object with a code and a message.
ClientErrors ==
  { [kind |-> "FirebaseError", message |-> <<"Missing or insufficient permissions.">>,
     code |-> "permission-denied", path |-> "", originalError |-> "none"],
    [kind |-> "FirebaseError", message |-> <<"The service is currently unavailable.">>,
     code |-> "unavailable", path |-> "", originalError |-> "none"] }

NoThrown ==
  [kind |-> "none", message |-> <<>>, code |-> "", path |-> "", originalError |-> "none"]

\* new Error(`Document does not exist at path: ${path}`)
DoesNotExist(path) ==
  [kind |-> "Error", message |-> <<"Document ", "does not exist", " at path: ", path>>,
   code |-> "", path |-> "", originalError |-> "none"]

\* The client's setDoc: two arguments overwrite the document, { merge: true }
\* keeps the fields the data does not name.
SetDoc(document, data, forwarded) ==
  IF forwarded.given /\ forwarded.merge
    THEN [exists |-> TRUE,
          data |-> [f \in Fields |-> IF data[f] # Absent THEN data[f] ELSE document.data[f]]]
    ELSE [exists |-> TRUE, data |-> data]

\* The client's updateDoc on an existing document.
UpdateDoc(document, data) ==
  [exists |-> TRUE,
   data |-> [f \in Fields |-> IF data[f] # Absent THEN data[f] ELSE document.data[f]]]

\* Query constraints: none, where("name", "==", "x"), limit(1).
NoConstraints == <<>>

WhereNameIsX == <<[type |-> "where", field |-> "name", value |-> "x", n |-> 0]>>

LimitOne == <<[type |-> "limit", field |-> "", value |-> "", n |-> 1]>>

ConstraintValues == {NoConstraints, WhereNameIsX, LimitOne}

Matches(data, constraints) ==
  \A i \in 1 .. Len(constraints) :
    constraints[i].type = "where" => data[constraints[i].field] = constraints[i].value

Limit(snapshots, constraints) ==
  IF \E i \in 1 .. Len(constraints) : constraints[i].type = "limit"
    THEN LET i == CHOOSE j \in 1 .. Len(constraints) : constraints[j].type = "limit"
         IN  SubSeq(snapshots, 1, IF Len(snapshots) < constraints[i].n
                                    THEN Len(snapshots) ELSE constraints[i].n)
    ELSE snapshots

\* The client's getDocs: the documents of the collection that exist and match,
\* in document order, each with its id and its data.
GetDocs(store, constraints) ==
  LET Present(path) == store[path].exists /\ Matches(store[path].data, constraints)
      snapshots == [i \in 1 .. Len(DocOrder) |->
                      [id |-> DocId(DocOrder[i]), data |-> store[DocOrder[i]].data]]
      Kept(snapshot) == \E path \in Paths : DocId(path) = snapshot.id /\ Present(path)
  IN  Limit(SelectSeq(snapshots, Kept), constraints)

\* { id: doc.id, ...doc.data() }: the spread comes after id, so a field of
\* the data named id replaces doc.id
SpreadIdFirst(id, data) ==
  [f \in Fields |-> IF f = "id" /\ data[f] = Absent THEN id ELSE data[f]]

QueryResults(snapshots) ==
  [i \in 1 .. Len(snapshots) |-> SpreadIdFirst(snapshots[i].id, snapshots[i].data)]

NoDocumentCall ==
  [op |-> "constructor", path |-> "", data |-> NoData, options |-> NoSetOptions,
   constraints |-> NoConstraints, forwarded |-> NoSetOptions,
   before |-> [p \in Paths |-> NoDocument], outcome |-> "ok", returned |-> NoData,
   results |-> <<>>, snapshots |-> <<>>, caught |-> NoThrown, thrown |-> NoThrown,
   repeated |-> FALSE]

NewDocuments == [store |-> [p \in Paths |-> NoDocument], last |-> NoDocumentCall]

\* The call repeats the one just before it: same operation, same arguments,
\* and the earlier one succeeded.
Repeats(call) ==
  /\ documents.last.op = call.op
  /\ documents.last.path = call.path
  /\ documents.last.data = call.data
  /\ documents.last.options = call.options
  /\ documents.last.outcome = "ok"

\* A variant that finds a document at every path.
ExistsAlways(docSnap) == TRUE

\* docSnap.exists()
Exists(docSnap) == docSnap.exists

\* getDocument(path): getDoc, then the existence test; the catch block logs
\* and rethrows what it caught.
GetDocument(path, rejects, error) ==
  LET call == [NoDocumentCall EXCEPT !.op = "getDocument", !.path = path,
                                     !.before = documents.store]
      docSnap == documents.store[path]
  IN
  /\ documents' =
       [documents EXCEPT !.last =
          IF rejects
            THEN [call EXCEPT !.outcome = "error", !.caught = error, !.thrown = error]
          ELSE IF ~Exists(docSnap)
            THEN [call EXCEPT !.outcome = "error", !.caught = DoesNotExist(path),
                              !.thrown = DoesNotExist(path)]
          ELSE [call EXCEPT !.outcome = "ok", !.returned = docSnap.data]]
  /\ UNCHANGED <<baseVars, creation, codec, functions, manager>>

\* A variant that never passes the options on.
ForwardedNever(setOptions) == NoSetOptions

\* if (options) setDoc(docRef, data, options) else setDoc(docRef, data): what
\* reaches the client as third argument
Forwarded(setOptions) == IF setOptions.given THEN setOptions ELSE NoSetOptions

\* setDocument(path, data, options): setDoc with the options when they are
\* given, with two arguments otherwise.
SetDocument(path, data, setOptions, rejects, error) ==
  LET forwarded == Forwarded(setOptions)
      call == [NoDocumentCall EXCEPT !.op = "setDocument", !.path = path, !.data = data,
                                     !.options = setOptions, !.forwarded = forwarded,
                                     !.before = documents.store,
                                     !.repeated = Repeats([op |-> "setDocument", path |-> path,
                                                          data |-> data, options |-> setOptions])]
  IN
  /\ documents' =
       IF rejects
         THEN [documents EXCEPT !.last =
                 [call EXCEPT !.outcome = "error", !.caught = error, !.thrown = error]]
         ELSE [documents EXCEPT
                 !.store[path] = SetDoc(documents.store[path], data, forwarded),
                 !.last = call]
  /\ UNCHANGED <<baseVars, creation, codec, functions, manager>>

\* The client's updateDoc rejects with not-found when there is no document.
NotFound ==
  [kind |-> "FirebaseError", message |-> <<"No document to update">>,
   code |-> "not-found", path |-> "", originalError |-> "none"]

\* updateDocument(path, data)
UpdateDocument(path, data, rejects, error) ==
  LET call == [NoDocumentCall EXCEPT !.op = "updateDocument", !.path = path, !.data = data,
                                     !.before = documents.store]
      failure == IF rejects THEN error ELSE NotFound
  IN
  /\ documents' =
       IF rejects \/ ~documents.store[path].exists
         THEN [documents EXCEPT !.last =
                 [call EXCEPT !.outcome = "error", !.caught = failure, !.thrown = failure]]
         ELSE [documents EXCEPT
                 !.store[path] = UpdateDoc(documents.store[path], data),
                 !.last = call]
  /\ UNCHANGED <<baseVars, creation, codec, functions, manager>>

\* deleteDocument(path)
DeleteDocument(path, rejects, error) ==
  LET call == [NoDocumentCall EXCEPT !.op = "deleteDocument", !.path = path,
                                     !.before = documents.store]
  IN
  /\ documents' =
       IF rejects
         THEN [documents EXCEPT !.last =
                 [call EXCEPT !.outcome = "error", !.caught = error, !.thrown = error]]
         ELSE [documents EXCEPT !.store[path] = NoDocument, !.last = call]
  /\ UNCHANGED <<baseVars, creation, codec, functions, manager>>

\* query(collectionPath, ...queryConstraints)
Query(constraints, rejects, error) ==
  LET call == [NoDocumentCall EXCEPT !.op = "query", !.path = CollectionPath,
                                     !.constraints = constraints,
                                     !.before = documents.store]
      querySnapshot == GetDocs(documents.store, constraints)
  IN
  /\ documents' =
       [documents EXCEPT !.last =
          IF rejects
            THEN [call EXCEPT !.outcome = "error", !.caught = error, !.thrown = error]
            ELSE [call EXCEPT !.snapshots = querySnapshot,
                              !.results = QueryResults(querySnapshot)]]
  /\ UNCHANGED <<baseVars, creation, codec, functions, manager>>

DocumentsNext ==
  \E error \in {NoThrown} \cup ClientErrors :
    LET rejects == error # NoThrown IN
    \/ \E path \in Paths : GetDocument(path, rejects, error)
    \/ \E path \in Paths, data \in DataValues, o \in SetOptionsValues :
         SetDocument(path, data, o, rejects, error)
    \/ \E path \in Paths, data \in DataValues : UpdateDocument(path, data, rejects, error)
    \/ \E path \in Paths : DeleteDocument(path, rejects, error)
    \/ \E constraints \in ConstraintValues : Query(constraints, rejects, error)

\* ---------------------------------------------------------- specifications

\* One specification per component; the other components stay as they are
\* after construction with the default configuration.

InitRetry ==
  /\ config \in ConfigValues
  /\ options = Undefined
  /\ configAtCall = Undefined
  /\ maxRetries = 0
  /\ attempt = 0
  /\ lastError = NoError
  /\ pc = "idle"
  /\ calls = 0
  /\ failures = 0
  /\ waits = <<>>
  /\ result = 0
  /\ thrown = NoError
  /\ pubsubConfig = Num(DefaultPubSubTimeoutMs)
  /\ listener = NoListener
  /\ msgs = [m \in MsgIds |-> Undelivered]
  /\ activeSubscriptions = [n \in Names |-> 0]
  /\ subscriptions = <<>>
  /\ pending = [n \in Names |-> "none"]
  /\ documents = NewDocuments
  /\ remote = {}
  /\ lastOp = [op |-> "constructor", name |-> "", result |-> "ok"]
  /\ creation = NoCreation
  /\ codec = IdleCodec
  /\ functions = NewFunctions
  /\ manager = NewManager

InitDelivery ==
  /\ pubsubConfig \in PubSubTimeoutValues
  /\ listener = NoListener
  /\ msgs = [m \in MsgIds |-> Undelivered]
  /\ config = Num(DefaultConfigMaxRetries)
  /\ options = Undefined
  /\ configAtCall = Undefined
  /\ maxRetries = 0
  /\ attempt = 0
  /\ lastError = NoError
  /\ pc = "idle"
  /\ calls = 0
  /\ failures = 0
  /\ waits = <<>>
  /\ result = 0
  /\ thrown = NoError
  /\ activeSubscriptions = [n \in Names |-> 0]
  /\ subscriptions = <<>>
  /\ pending = [n \in Names |-> "none"]
  /\ documents = NewDocuments
  /\ remote = {}
  /\ lastOp = [op |-> "constructor", name |-> "", result |-> "ok"]
  /\ creation = NoCreation
  /\ codec = IdleCodec
  /\ functions = NewFunctions
  /\ manager = NewManager

InitRegistry ==
  /\ activeSubscriptions = [n \in Names |-> 0]
  /\ subscriptions = <<>>
  /\ pending = [n \in Names |-> "none"]
  /\ documents = NewDocuments
  /\ remote \in SUBSET Names
  /\ lastOp = [op |-> "constructor", name |-> "", result |-> "ok"]
  /\ config = Num(DefaultConfigMaxRetries)
  /\ options = Undefined
  /\ configAtCall = Undefined
  /\ maxRetries = 0
  /\ attempt = 0
  /\ lastError = NoError
  /\ pc = "idle"
  /\ calls = 0
  /\ failures = 0
  /\ waits = <<>>
  /\ result = 0
  /\ thrown = NoError
  /\ pubsubConfig = Num(DefaultPubSubTimeoutMs)
  /\ listener = NoListener
  /\ msgs = [m \in MsgIds |-> Undelivered]
  /\ creation = NoCreation
  /\ codec = IdleCodec
  /\ functions = NewFunctions
  /\ manager = NewManager

InitCreate ==
  /\ creation \in {[NoCreation EXCEPT !.remote = r] : r \in SUBSET Kinds}
  /\ codec = IdleCodec
  /\ functions = NewFunctions
  /\ manager = NewManager
  /\ config = Num(DefaultConfigMaxRetries)
  /\ options = Undefined
  /\ configAtCall = Undefined
  /\ maxRetries = 0
  /\ attempt = 0
  /\ lastError = NoError
  /\ pc = "idle"
  /\ calls = 0
  /\ failures = 0
  /\ waits = <<>>
  /\ result = 0
  /\ thrown = NoError
  /\ pubsubConfig = Num(DefaultPubSubTimeoutMs)
  /\ listener = NoListener
  /\ msgs = [m \in MsgIds |-> Undelivered]
  /\ activeSubscriptions = [n \in Names |-> 0]
  /\ subscriptions = <<>>
  /\ pending = [n \in Names |-> "none"]
  /\ documents = NewDocuments
  /\ remote = {}
  /\ lastOp = [op |-> "constructor", name |-> "", result |-> "ok"]

InitCodec ==
  /\ codec \in {[IdleCodec EXCEPT !.payload = p] : p \in Payloads}
  /\ creation = NoCreation
  /\ functions = NewFunctions
  /\ manager = NewManager
  /\ config = Num(DefaultConfigMaxRetries)
  /\ options = Undefined
  /\ configAtCall = Undefined
  /\ maxRetries = 0
  /\ attempt = 0
  /\ lastError = NoError
  /\ pc = "idle"
  /\ calls = 0
  /\ failures = 0
  /\ waits = <<>>
  /\ result = 0
  /\ thrown = NoError
  /\ pubsubConfig = Num(DefaultPubSubTimeoutMs)
  /\ listener = NoListener
  /\ msgs = [m \in MsgIds |-> Undelivered]
  /\ activeSubscriptions = [n \in Names |-> 0]
  /\ subscriptions = <<>>
  /\ pending = [n \in Names |-> "none"]
  /\ documents = NewDocuments
  /\ remote = {}
  /\ lastOp = [op |-> "constructor", name |-> "", result |-> "ok"]

InitFunctions ==
  /\ functions \in
       { [NewFunctions EXCEPT !.services = <<NewService(e)>>,
                              !.draft = DraftService(r)] :
           e \in BOOLEAN, r \in Regions }
  /\ creation = NoCreation
  /\ codec = IdleCodec
  /\ manager = NewManager
  /\ config = Num(DefaultConfigMaxRetries)
  /\ options = Undefined
  /\ configAtCall = Undefined
  /\ maxRetries = 0
  /\ attempt = 0
  /\ lastError = NoError
  /\ pc = "idle"
  /\ calls = 0
  /\ failures = 0
  /\ waits = <<>>
  /\ result = 0
  /\ thrown = NoError
  /\ pubsubConfig = Num(DefaultPubSubTimeoutMs)
  /\ listener = NoListener
  /\ msgs = [m \in MsgIds |-> Undelivered]
  /\ activeSubscriptions = [n \in Names |-> 0]
  /\ subscriptions = <<>>
  /\ pending = [n \in Names |-> "none"]
  /\ documents = NewDocuments
  /\ remote = {}
  /\ lastOp = [op |-> "constructor", name |-> "", result |-> "ok"]

InitManager ==
  /\ manager \in
       {[NewManager EXCEPT !.config.enablePersistence = e] : e \in BOOLEAN}
  /\ creation = NoCreation
  /\ codec = IdleCodec
  /\ functions = NewFunctions
  /\ config = Num(DefaultConfigMaxRetries)
  /\ options = Undefined
  /\ configAtCall = Undefined
  /\ maxRetries = 0
  /\ attempt = 0
  /\ lastError = NoError
  /\ pc = "idle"
  /\ calls = 0
  /\ failures = 0
  /\ waits = <<>>
  /\ result = 0
  /\ thrown = NoError
  /\ pubsubConfig = Num(DefaultPubSubTimeoutMs)
  /\ listener = NoListener
  /\ msgs = [m \in MsgIds |-> Undelivered]
  /\ activeSubscriptions = [n \in Names |-> 0]
  /\ subscriptions = <<>>
  /\ pending = [n \in Names |-> "none"]
  /\ documents = NewDocuments
  /\ remote = {}
  /\ lastOp = [op |-> "constructor", name |-> "", result |-> "ok"]

InitDocuments ==
  /\ documents \in
       {[NewDocuments EXCEPT !.store["users/a"] = d] :
          d \in {NoDocument, [exists |-> TRUE, data |-> NoData]}}
  /\ config = Num(DefaultConfigMaxRetries)
  /\ options = Undefined
  /\ configAtCall = Undefined
  /\ maxRetries = 0
  /\ attempt = 0
  /\ lastError = NoError
  /\ pc = "idle"
  /\ calls = 0
  /\ failures = 0
  /\ waits = <<>>
  /\ result = 0
  /\ thrown = NoError
  /\ pubsubConfig = Num(DefaultPubSubTimeoutMs)
  /\ listener = NoListener
  /\ msgs = [m \in MsgIds |-> Undelivered]
  /\ activeSubscriptions = [n \in Names |-> 0]
  /\ subscriptions = <<>>
  /\ pending = [n \in Names |-> "none"]
  /\ remote = {}
  /\ lastOp = [op |-> "constructor", name |-> "", result |-> "ok"]
  /\ creation = NoCreation
  /\ codec = IdleCodec
  /\ functions = NewFunctions
  /\ manager = NewManager

SpecRetry == InitRetry /\ [][RetryNext]_vars

SpecDelivery == InitDelivery /\ [][DeliveryNext]_vars

SpecRegistry == InitRegistry /\ [][RegistryNext]_vars

SpecCreate == InitCreate /\ [][CreateNext]_vars

SpecCodec == InitCodec /\ [][CodecNext]_vars

SpecFunctions == InitFunctions /\ [][FunctionsNext]_vars

SpecManager == InitManager /\ [][ManagerNext]_vars

SpecDocuments == InitDocuments /\ [][DocumentsNext]_vars

\* ------------------------------------------------------------- properties

\* Platform codes that normalize to one of the three non-retryable codes.
FinalPlatformCodes ==
  { <<PREFIX, "permission-denied">>, <<PREFIX, "invalid-argument">>,
    <<PREFIX, "not-found">>, <<"permission-denied">>, <<"invalid-argument">>,
    <<"not-found">> }

\* The last failure of the call in progress was a platform error of that kind.
LastFailureIsFinal ==
  /\ lastError.kind = "FunctionsError"
  /\ lastError.originalError.hasCode
  /\ lastError.originalError.code \in FinalPlatformCodes

\* Every invocation so far failed, the last one with a retryable error.
AllFailedRetryable ==
  /\ lastError.kind = "FunctionsError"
  /\ failures = calls
  /\ ~LastFailureIsFinal

\* The maxRetries the caller configured: given per call, else the service default.
Configured == IF options # Undefined THEN options ELSE configAtCall

\* C1: a failure whose platform code normalizes to permission-denied,
\* invalid-argument or not-found ends the call at once: the error of that
\* invocation is thrown, the callable is not invoked again (a call whose first
\* invocation fails this way invokes it exactly once) and no backoff wait is
\* scheduled after it, whatever maxRetries is.
C1_NonRetryableThrownAtOnce ==
  LastFailureIsFinal =>
    /\ pc = "thrown"
    /\ thrown = lastError
    /\ calls = lastError.inv
    /\ Len(waits) = calls - 1
    /\ (failures = 1 => calls = 1 /\ waits = <<>>)

C1_Witness ==
  /\ pc = "thrown"
  /\ calls = 1
  /\ maxRetries >= 3
  /\ lastError.kind = "FunctionsError"
  /\ lastError.originalError.code = <<PREFIX, "not-found">>

\* C2: with maxRetries = N >= 0 configured (per call or as service default) and
\* every invocation failing with a retryable error, the callable is invoked
\* exactly N+1 times before the error reaches the caller.
C2_RetryableExhaustsNPlusOne ==
  (pc = "thrown" /\ AllFailedRetryable /\ Configured # Undefined /\ Configured[1] >= 0)
    => calls = Configured[1] + 1

\* C3: with maxRetries = 0 the call makes exactly one attempt and schedules no
\* backoff wait.
C3_ZeroRetriesSingleAttempt ==
  (pc # "idle" /\ Configured = Num(0)) => (calls = 1 /\ waits = <<>>)

\* The waits that doubling from 1000 with a ceiling of 10000 gives.
RECURSIVE DoublingWaits(_)
DoublingWaits(n) ==
  IF n = 0 THEN <<>>
  ELSE IF n = 1 THEN <<1000>>
  ELSE LET p == DoublingWaits(n - 1) IN Append(p, Min(2 * p[n - 1], 10000))

\* C4: the wait after the k-th failed attempt (k from 0) is min(1000 * 2^k, 10000)
\* ms; the waits increase strictly until they reach 10000 and never exceed it;
\* every wait is followed by another attempt, so none follows the final attempt.
C4_BackoffSchedule ==
  /\ waits = DoublingWaits(Len(waits))
  /\ \A i \in 1 .. Len(waits) :
       /\ waits[i] = Min(1000 * Pow2(i - 1), 10000)
       /\ waits[i] <= 10000
       /\ (i > 1 /\ waits[i - 1] < 10000) => waits[i - 1] < waits[i]
  /\ pc = "waiting" => Len(waits) = calls
  /\ pc = "calling" => Len(waits) = calls - 1
  /\ pc \in {"returned", "thrown"} => Len(waits) = (IF calls = 0 THEN 0 ELSE calls - 1)

C4_Witness ==
  /\ pc = "thrown"
  /\ waits = <<1000, 2000, 4000, 8000, 10000, 10000>>

\* C5: the caller sees the outcome of the last attempt made: a returned result is
\* that of the last invocation, which is the only one that succeeded; a thrown
\* error is the error of the last invocation, never that of an earlier one.
C5_OutcomeIsLastAttempt ==
  /\ pc = "returned" =>
       (result = calls /\ failures = calls - 1 /\ thrown = NoError)
  /\ (pc = "thrown" /\ calls > 0) =>
       (thrown = lastError /\ thrown.inv = calls /\ failures = calls /\ result = 0)

C5_Witness ==
  /\ pc = "thrown"
  /\ calls = 3
  /\ thrown.kind = "FunctionsError"
  /\ thrown.inv = 3
  /\ thrown.code = <<"unavailable">>

\* The handler of message m failed (threw or rejected) before any timeout.
HandlerFailed(m) ==
  msgs[m].pc = "done" /\ msgs[m].handler = "rejected" /\ msgs[m].timer # "fired"

\* The handler of message m completed successfully before any timeout.
HandlerSucceeded(m) ==
  msgs[m].pc = "done" /\ msgs[m].handler = "resolved" /\ msgs[m].timer # "fired"

\* C6: when the handler throws or rejects while processing a message, the
\* delivery wrapper calls nack() exactly once and ack() not at all.
C6_HandlerFailureNacksOnce ==
  \A m \in MsgIds : HandlerFailed(m) => (msgs[m].nacks = 1 /\ msgs[m].acks = 0)

C8_TimeoutIsFailure ==
  \A m \in MsgIds :
    /\ msgs[m].timer = "fired" =>
         (msgs[m].pc = "done" /\ msgs[m].nacks >= 1 /\ msgs[m].acks = 0
            /\ TimerArmed(msgs[m].timeoutMs))
    /\ msgs[m].timer = "cleared" =>
         /\ msgs[m].pc = "done"
         /\ msgs[m].handler \in {"resolved", "rejected"}
         /\ msgs[m].handler = "resolved" => msgs[m].nacks = 0
    /\ msgs[m].pc = "done" => msgs[m].timer # "armed"

C8_Witness ==
  /\ msgs[1].timer = "fired" /\ msgs[1].autoAcknowledge /\ msgs[1].nacks >= 1
  /\ msgs[2].timer = "cleared" /\ msgs[2].handler = "resolved" /\ msgs[2].nacks = 0

\* Processing of message m failed: parse error, handler failure or timeout.
ProcessingFailed(m) ==
  /\ msgs[m].pc = "done"
  /\ \/ ~msgs[m].valid
     \/ msgs[m].handler = "rejected"
     \/ msgs[m].timer = "fired"

\* C9: the message listener never propagates a failure to the transport: every
\* failure while processing a message is caught, logged and answered with
\* nack(), and the promise of the callback does not reject.
C9_FailuresStayInside ==
  \A m \in MsgIds :
    /\ msgs[m].callback # "rejected"
    /\ ProcessingFailed(m) =>
         (msgs[m].logged >= 1 /\ msgs[m].nacks >= 1 /\ msgs[m].callback = "resolved")

C9_Witness ==
  /\ ProcessingFailed(1) /\ ~msgs[1].valid /\ msgs[1].callback = "resolved"
  /\ ProcessingFailed(2) /\ msgs[2].timer = "fired" /\ msgs[2].callback = "resolved"

\* C10: unsubscribe(name) on a name that is not registered fails with a
\* PubSubError and leaves the registry and all listeners as they were.
C10_UnsubscribeUnknownFails ==
  (lastOp.op = "unsubscribe" /\ ~lastOp.registered) =>
    /\ lastOp.result = "PubSubError"
    /\ activeSubscriptions = lastOp.before.active
    /\ subscriptions = lastOp.before.subs

C10_Witness ==
  /\ lastOp.op = "unsubscribe"
  /\ ~lastOp.registered
  /\ lastOp.result = "PubSubError"
  /\ \E n \in Names : activeSubscriptions[n] # 0
  /\ \E h \in 1 .. Len(subscriptions) :
       subscriptions[h].name = lastOp.name /\ subscriptions[h].message = 0

\* C11: after unsubscribe(name) succeeds, name is no longer registered, and no
\* handler that an earlier subscribeToTopic(name, ...) registered is invoked for
\* a message delivered afterwards, however often name was subscribed before.
C11_UnsubscribeStopsEveryHandler ==
  /\ (lastOp.op = "unsubscribe" /\ lastOp.result = "ok") =>
       activeSubscriptions[lastOp.name] = 0
  /\ lastOp.op = "message" => activeSubscriptions[lastOp.name] # 0

C13_CreationIsIdempotent ==
  \A c \in CreateSlots :
    LET call == creation.calls[c] IN
    call.pc = "done" =>
      /\ call.outcome \in {"handle", "PubSubError"}
      /\ call.outcome = "handle" => call.kind \in creation.remote
      /\ call.answer = "ALREADY_EXISTS" => call.outcome = "handle"
      /\ call.answer \notin {"none", "created", "ALREADY_EXISTS"} =>
           /\ call.outcome = "PubSubError"
           /\ call.code = CreationFailedCode(call.kind)
      /\ call.saw = "threw" =>
           /\ call.outcome = "PubSubError"
           /\ call.code = AccessFailedCode(call.kind)

\* Two interleaved getOrCreate calls for the same resource both saw that it
\* does not exist; one created it, the other lost and got the handle.
C13_Witness ==
  \E c, d \in CreateSlots :
    /\ creation.calls[c].fn = "getOrCreate"
    /\ creation.calls[d].fn = "getOrCreate"
    /\ creation.calls[c].kind = creation.calls[d].kind
    /\ creation.calls[c].saw = "no"
    /\ creation.calls[d].saw = "no"
    /\ creation.calls[c].answer = "created"
    /\ creation.calls[d].answer = "ALREADY_EXISTS"
    /\ creation.calls[d].outcome = "handle"


\* C14: round trip.  Whatever payload publishMessage was given, the value
\* read back from the bytes it handed to the transport, by parseMessageData
\* or by the messageHandler, is that payload.
C14_RoundTrip ==
  codec.reader # "none" =>
    /\ codec.received.ok
    /\ codec.received.v = codec.payload


\* C15: bytes that are not JSON are not an error.  A delivered message whose
\* payload JSON.parse rejects still reaches the handler and is not nacked by
\* the messageHandler on account of its payload.
C15_NonJsonReachesHandler ==
  \A m \in MsgIds :
    (msgs[m].pc # "undelivered" /\ ~msgs[m].valid) =>
      /\ msgs[m].handler # "notcalled"
      /\ msgs[m].nacks = 0


\* C19: the per-region cache of a function facade.  getFunctions of the SDK
\* is invoked by a call exactly when the region of the call has no cached
\* instance, so at most once per region between two cleanups and exactly
\* once for a region that is cached, however the calls settle; cleanup()
\* leaves no region cached.
C19_GetFunctionsOncePerRegion ==
  /\ \A s \in 1 .. Len(functions.services), r \in Regions :
       LET service == functions.services[s] IN
       /\ service.getFunctionsCalls[r] <= 1
       /\ service.getFunctionsCalls[r] = 1 <=>
            service.functionsInstances[r] # NoInstance
       /\ service.functionsInstances[r] # NoInstance =>
            service.functionsInstances[r].region = r
  /\ functions.last.op = "callFunction" =>
       /\ functions.last.sdk <=> ~functions.last.cachedBefore
       /\ functions.services[functions.last.service]
            .functionsInstances[functions.last.used] # NoInstance
  /\ functions.last.op = "cleanup" =>
       \A r \in Regions :
         functions.services[functions.last.service].functionsInstances[r]
           = NoInstance

\* A call reuses the cached instance of its region, both regions being
\* cached.
C19_Witness ==
  /\ functions.last.op = "callFunction"
  /\ ~functions.last.sdk
  /\ functions.last.cachedBefore
  /\ \A r \in Regions : functions.services[1].functionsInstances[r] # NoInstance

\* C20: a call is dispatched through the caller of the region given in its
\* options, and through the caller of 'us-central1' when it gives none,
\* whatever the regions of the calls before it.
C20_RegionOverrideHonoured ==
  functions.last.op \in {"callFunction", "draftCallFunction"} =>
    functions.last.used =
      (IF functions.last.region = Undefined THEN DefaultRegion
       ELSE functions.last.region[1])


\* C16: the manager memoizes its handles.  Between construction and the
\* next cleanup(), and between two cleanups, every getter has returned one
\* instance only, the one the manager holds; getFirestore of the SDK was
\* invoked at most once, and persistence was enabled with that invocation
\* when enablePersistence is set and never otherwise.
C16_GettersMemoize ==
  /\ \A g \in Getters : Cardinality(manager.returned[g]) <= 1
  /\ manager.getFirestoreCalls <= 1
  /\ manager.getFirestoreCalls = 1 <=> manager.firestoreInstance # Null
  /\ manager.persistenceCalls =
       (IF manager.config.enablePersistence THEN manager.getFirestoreCalls
        ELSE 0)
  /\ manager.firestoreService # Null => manager.firestoreInstance # Null
  /\ manager.last.op \in Getters =>
       /\ manager.last.returned # Null
       /\ manager.returned[manager.last.op] = {manager.last.returned}
       /\ manager.last.returned =
            (CASE manager.last.op = "getFirestore" -> manager.firestoreInstance
               [] manager.last.op = "getFirestoreService" ->
                    manager.firestoreService
               [] manager.last.op = "getFunctionsService" ->
                    manager.functionsService
               [] manager.last.op = "getPubSubService" ->
                    manager.pubSubService)

\* Every getter has been called, the last call got the instance made by an
\* earlier one, and persistence was enabled once.
C16_Witness ==
  /\ manager.last.op = "getFirestore"
  /\ ~manager.last.created
  /\ manager.persistenceCalls = 1
  /\ \A g \in Getters : manager.returned[g] # {}

C18_CleanupTearsDownFacades ==
  manager.last.op = "cleanup" =>
    /\ manager.last.callers = {}
    /\ manager.last.listeners = {}


\* The platform code without its leading 'functions/'.
StripPrefix(code) ==
  IF code # <<>> /\ Head(code) = PREFIX THEN Tail(code) ELSE code

\* C21: a failed function call reaches the caller as a FunctionsError whose
\* code is the platform code with the prefix 'functions/' stripped, or
\* 'unknown-error' when the platform error has no string code, whose message
\* includes the function name and whose originalError is what was caught.
C21_FailureIsNormalized ==
  (functions.last.op = "settled" /\ functions.last.outcome = "FunctionsError") =>
    LET e == functions.last.thrown
        caught == functions.last.caught
    IN  /\ e.kind = "FunctionsError"
        /\ e.originalError = caught
        /\ Includes(e.message, FunctionName)
        /\ e.code = (IF caught.hasCode THEN StripPrefix(caught.code)
                     ELSE <<"unknown-error">>)

\* C22: getDocument on a path where the client reports no document throws an
\* error whose message contains 'does not exist' and the path, and returns no
\* data; where the document exists it returns exactly the stored data.
C22_GetDocumentExistence ==
  (documents.last.op = "getDocument" /\ documents.last.caught \notin ClientErrors) =>
    LET call == documents.last
        document == call.before[call.path]
    IN  IF document.exists
          THEN call.outcome = "ok" /\ call.returned = document.data
               /\ call.thrown = NoThrown
          ELSE call.outcome = "error" /\ call.returned = NoData
               /\ Includes(call.thrown.message, "does not exist")
               /\ Includes(call.thrown.message, call.path)

\* getDocument has just thrown the does-not-exist error for one path while
\* the document at users/b is stored.
C22_Witness ==
  /\ documents.last.op = "getDocument"
  /\ documents.last.outcome = "error"
  /\ documents.last.thrown = DoesNotExist(documents.last.path)
  /\ documents.store["users/b"].exists
  /\ documents.store["users/b"].data["name"] = "x"

\* C23: whenever a document operation (getDocument, setDocument,
\* updateDocument, deleteDocument, query) ends because the client rejected,
\* the caller receives a FirestoreError that carries a message, the path or
\* collection and the client's error as originalError; the raw client error
\* is never what the caller receives.
C23_ClientErrorIsWrapped ==
  (documents.last.outcome = "error"
     /\ documents.last.caught \in ClientErrors \cup {NotFound}) =>
    /\ documents.last.thrown.kind = "FirestoreError"
    /\ documents.last.thrown.message # <<>>
    /\ documents.last.thrown.path = documents.last.path
    /\ documents.last.thrown # documents.last.caught

\* C24: query returns one record per document of the client's result, in the
\* result's order, each made of the document's data and an id field equal to
\* the document's id, also when the stored data has a field named id; an
\* empty result gives an empty list and no error.
C24_QueryAddsDocumentId ==
  (documents.last.op = "query" /\ documents.last.outcome = "ok") =>
    LET results == documents.last.results
        snapshots == documents.last.snapshots
    IN  /\ Len(results) = Len(snapshots)
        /\ documents.last.thrown = NoThrown
        /\ \A i \in 1 .. Len(results) :
             /\ results[i]["id"] = snapshots[i].id
             /\ \A f \in Fields \ {"id"} : results[i][f] = snapshots[i].data[f]

\* C25: a setDocument call that repeats the call just before it (same path,
\* same payload, same options, overwrite or merge) leaves the stored
\* documents as the first call left them, and the options reach the client
\* exactly when the caller supplied them.
C25_SetDocumentIdempotent ==
  (documents.last.op = "setDocument") =>
    /\ documents.last.repeated => documents.store = documents.last.before
    /\ documents.last.forwarded.given = documents.last.options.given
    /\ documents.last.options.given =>
         documents.last.forwarded = documents.last.options

\* A merging setDocument has been repeated and succeeded both times, on a
\* document that keeps a field the payload does not name.
C25_Witness ==
  /\ documents.last.op = "setDocument"
  /\ documents.last.repeated
  /\ documents.last.outcome = "ok"
  /\ documents.last.options = [given |-> TRUE, merge |-> TRUE]
  /\ documents.last.data["name"] = Absent
  /\ documents.store[documents.last.path].data["name"] = "x"

\* C26: while a listener registered with maxConcurrency = K (10 when the
\* option is missing) is on, the number of messageHandler invocations in
\* flight never exceeds K.
C26_InFlightWithinMaxConcurrency ==
  listener.on => Cardinality(InFlight) <= FlowControlMaxMessages(listener.maxConcurrency)

\* C29: for every message the delivery wrapper makes at most one disposition
\* call, ack() or nack(), whatever path the message takes: never both, and
\* never nack() twice.
C29_AtMostOneDisposition ==
  \A m \in MsgIds : msgs[m].acks + msgs[m].nacks <= 1

\* C27: the statement after the retry loop is never reached: whatever
\* maxRetries is, zero and negative values included, a call that throws has
\* invoked the callable and throws the error of an attempt, never undefined.
C27_ThrowAfterLoopUnreachable ==
  pc = "thrown" => (calls >= 1 /\ thrown # UndefinedError /\ thrown = lastError)

\* The retry limit as stated: options.maxRetries if given, else the configured
\* maxRetries, else 3.
StatedMaxRetries ==
  IF options # Undefined THEN options[1]
  ELSE IF configAtCall # Undefined THEN configAtCall[1]
  ELSE FallbackMaxRetries

\* C28: with M the retry limit (options.maxRetries if given, else the
\* configured maxRetries, else 3) and M >= 0, a call makes at most M + 1
\* attempts and at most M backoff waits.
C28_AttemptsAndWaitsBounded ==
  (pc # "idle" /\ StatedMaxRetries >= 0) =>
    (calls <= StatedMaxRetries + 1 /\ Len(waits) <= StatedMaxRetries)

\* C30: isInitialized() is true from construction until the first cleanup()
\* and false in every state after it: only cleanup() makes it false, nothing
\* makes it true again, and a getter called after the cleanup still returns
\* a handle.
C30_CleanupIsFinal ==
  /\ isInitialized(manager)
  /\ [][ /\ ~isInitialized(manager) => ~isInitialized(manager')
         /\ (isInitialized(manager) /\ ~isInitialized(manager')) =>
              manager'.last.op = "cleanup"
         /\ (~isInitialized(manager) /\ manager'.last.op \in Getters) =>
              ~IsNull(manager'.last.returned) ]_vars

\* After a cleanup, getPubSubService has constructed a facade and
\* isInitialized() is still false.
C30_Witness ==
  /\ manager.last.op = "getPubSubService"
  /\ manager.last.created
  /\ manager.earlier["getPubSubService"] # {}
  /\ ~isInitialized(manager)

====
